---- MODULE Spec2Model ----
(***************************************************************************)
(* ChatPulse: the transport (WebSocketManager), the client built on it     *)
(* (WhatsApp) and the pairing timer (QRManager), as a state machine.       *)
(*                                                                         *)
(* One step of the model is one run-to-completion turn of the Node event   *)
(* loop: a call made by the application, a socket event, or a timer        *)
(* callback, together with every handler and promise continuation it runs. *)
(* Handlers are operators from state records to state records, so that a   *)
(* handler that calls another one is the composition of the two.           *)
(***************************************************************************)
EXTENDS Naturals, Integers, Sequences, FiniteSets, TLC

(* ------------------------------- bounds -------------------------------- *)

\* sockets that exist at the same time with the manager's listeners attached,
\* for the managers the three specifications construct
ClientSockets == 1
TransportSockets == 2
ReconnectSockets == 2
\* calls of WebSocketManager.send
MaxSends == 2
\* reconnect timers pending at the same time
MaxTimers == 1
\* waitForConnection promises pending at the same time, per caller
MaxWaiters == 1
\* setTimeout callbacks of WhatsApp.generateQR pending at the same time
MaxQRExpiry == 1
\* setTimeout callbacks of WhatsApp.startSimulationMode pending at the same time
MaxSimStart == 1
\* options.maxReconnectAttempts of the managers the specifications construct
\* (the default is MAX_RECONNECT_ATTEMPTS = 10)
ClientAttempts == 2
TransportAttempts == 2
ReconnectAttempts == 6
SessionAttempts == 1
\* client identifiers QRManager.generateQRData draws in one run
MaxChallenges == 2
\* message packets PacketBuilder builds in one run
MaxBuilds == 3
\* the latest value of Date.now() in one run
MaxClock == 2
MaxQueued == 2
MaxJidLength == 4
MaxPending == 2
MaxHanded == 21

(* -------------------------- program constants -------------------------- *)

\* options.reconnectDelay in ms, as the scenario of C7 configures it (the default
\* is RECONNECT_DELAY = 5000)
reconnectDelay == 1000
\* startPingInterval: the liveness limit is pingInterval * 2, counted in ping ticks
PongLimit == 2
\* settings.json messages.queueSize is 100; WebSocketManager never reads it,
\* the model states it scaled down
queueSize == 1
\* the close code of WebSocketManager.disconnect ('Manual disconnect')
NormalClosure == 1000
\* a close code other than 1000, which handleClose treats as a lost connection
\* (1006 is what the socket reports when the peer went away)
AbnormalClosure == 1006
\* simulateIncomingMessages: the number of scripted messages
SimMessages == 3
\* AuthManager.isSessionExpired: maxAge, in days
maxAge == 30
\* AuthManager.validateQRCredentials: the least length of secretKey
SecretKeyLength == 32
RateLimitMax == 20
DefaultMaxRetries == 3
retryDelay == 1000

\* the poll ids that generateMessageId returns to createPoll
PollIds == {"3EB0", "3EB1"}

\* the voters
Voters == {"v1", "v2"}

\* the ids of the options of a poll created with two options
OptionIds == {0, 1}

\* the option ids passed to votePoll: arrays of at most two ids, one of which
\* may name no option; an id that is not in an array is an array of one id
OptionIdLists ==
    {<<a>> : a \in 0..2} \cup {<<a, b>> : a \in 0..2, b \in 0..2}

\* no call of ErrorHandler.handle has been made
NotHandling ==
    [phase |-> "idle", retryCount |-> 0, invocations |-> 0, delay |-> 0, code |-> "none"]

\* the values of the option maxRetries; 0 stands for an option left out
MaxRetriesOptions == {0, 1, 2}

Callers == {"client", "timer", "scan"}
CloseCodes == {NormalClosure, AbnormalClosure}
NoWaiters == [c \in Callers |-> 0]

\* the fields QRManager.validateQRScan requires of the scan data
requiredFields == {"clientId", "serverRef", "publicKey", "secretKey"}

\* the client identifier in a code that WhatsApp.generateQR displayed: a random
\* value of its own, which QRManager.generateQRData does not draw
DisplayedId == MaxChallenges + 1

\* the scan data passed to processQRScan: the fields that are present, the
\* client identifier it carries and the length of its secretKey. Either all
\* fields are present or one is missing.
ScanData ==
    [fields : {requiredFields}, clientId : 1..MaxChallenges \cup {DisplayedId},
     secretLength : {SecretKeyLength - 1, SecretKeyLength}]
    \cup
    [fields : {requiredFields \ {f} : f \in requiredFields}, clientId : {1},
     secretLength : {SecretKeyLength}]

\* the session files a client may find at construction: none, or one with the
\* age of its last use in days and whether it passes validateSession
\* the argument of QRManager.generateQR, by what extractQRData does with it: a
\* string or an object with ref, publicKey and clientId is the code as it is,
\* for any other object the manager generates the code
AuthData == {"code", "object"}

StoredSessions ==
    {<<>>} \cup {<<[age |-> a, valid |-> TRUE]>> : a \in {maxAge, maxAge + 1}}
           \cup {<<[age |-> 0, valid |-> FALSE]>>}

\* inbound frames, by what the handlers look at: text that is no JSON, a binary
\* frame below two bytes, any other binary frame, JSON without type, JSON of a
\* type that needs a timestamp and has none, and well-formed packets by type.
\* A signed frame is a message packet with a signature made with the key of
\* the session, a forged one a message packet whose signature is made with
\* another key or does not fit its content.
MalformedFrames == {"badJson", "shortBinary", "binary", "noType", "noTimestamp"}
PacketTypes == {"message", "presence", "reaction", "group_update", "auth_response", "ping"}
\* secret keys of credentials; the first is the one a scan brings
CodecKeys == {1, 2}
SessionKey == 1

\* the arguments of buildMessagePacket
Messages == [to : {"alice", "bob"}, content : {"hi", "bye"},
             messageType : {"conversation", "extendedText"}]

\* the values CryptoUtil.generateMessageId may return
MessageIds == {"3EB0", "3EB1"}

SignedFrames == {"signed", "forged"}
Frames == MalformedFrames \cup PacketTypes \cup SignedFrames

VARIABLES
    \* WebSocketManager
    ws,                 \* this.ws: 0 is null, else a socket
    sockets,            \* per socket: "none", "connecting", "open", "errored", "closed";
                        \* a socket with listeners removed is dropped ("none")
    isConnected,
    isConnecting,
    reconnectAttempts,
    maxReconnectAttempts,
    pingTimer,          \* this.pingTimer is set
    pongAge,            \* ping intervals elapsed since this.lastPong
    messageQueue,
    isProcessingQueue,
    reconnectTimers,    \* pending setTimeout callbacks of scheduleReconnect
    lastDelay,          \* delay of the most recently scheduled of them, 0 if none is pending
    waiters,            \* pending waitForConnection promises, per caller of connect
    \* WhatsApp
    waIsConnected,      \* WhatsApp.isConnected
    isAuthenticated,
    connectionState,
    simulationMode,
    autoReconnect,      \* config.autoReconnect
    errorListener,      \* the application registered a listener of the client's 'error'
    crashed,            \* an exception escaped a listener: the process has ended
    qrExpiry,           \* pending setTimeout callbacks of WhatsApp.generateQR
    simStart,           \* pending setTimeout callbacks of startSimulationMode
    simMessages,        \* pending setTimeout callbacks of simulateIncomingMessages
    \* QRManager
    qrTimer,            \* this.qrTimer is set
    qrClientId,         \* QRManager.clientId: 0 is null
    idCount,            \* random identifiers drawn so far; the n-th one is n
    \* AuthManager, PacketBuilder, PacketParser
    credentials,        \* AuthManager.credentials is set
    authIsAuthenticated,\* AuthManager.isAuthenticated
    sessionFile,        \* the session file: <<>> if there is none
    codecCredentials,   \* PacketBuilder.credentials and PacketParser.credentials are set
    codecKey,           \* their secretKey, 0 while they are null
    messageCounter,     \* PacketBuilder.messageCounter
    clock,              \* Date.now()
    built,              \* <<>> or the message passed to buildMessagePacket last with the frame it returned
    decoded,            \* <<>> or what parsePacket made of that frame
    persisted,          \* <<>> or the credentials passed to saveSession last with
                        \* what AuthManager.credentials held when it returned and
                        \* what loadSession returned after it
    \* MessageHandler
    rateMessages,       \* rateLimit.messages
    resetTime,          \* rateLimit.resetTime: the last clock value of the window
    handlerQueue,       \* MessageHandler.messageQueue: the counter fields of its packets
    handlerProcessing,  \* MessageHandler.isProcessing
    pendingSends,       \* calls of sendMessage that wait for wsManager.send to resolve
    \* observation
    \* PollHandler
    activePoll,         \* PollHandler.activePoll: for each poll id <<>> or the poll, with
                        \* the votes of each option and the ballot stored for each voter
    \* ErrorHandler
    enableRetry,        \* ErrorHandler.enableRetry
    maxRetries,         \* ErrorHandler.maxRetries
    handling,           \* the outermost call of handle: how far it is, the retryCount of
                        \* its innermost call, the calls of the operation so far, the
                        \* delay before the last retry and the code of the last error
    formatted,          \* <<>> or the argument of the last formatJid with its result
    flushed,            \* the packets processQueue passed to wsManager.send, in order
    handed,             \* packets the handler passed to wsManager.send in the last 60 s
    sendResult,         \* how the call of the handler in the last step went on, "none" without one
    sendCount,          \* calls of WebSocketManager.send so far; the n-th call carries payload n
    queuedLog,          \* payloads that send put into messageQueue, in call order
    wire,               \* payloads that ws.send accepted, in order
    failures,           \* calls of connect() that were rejected since the manager was
                        \* last open or was disconnected
    emitted,            \* events the last step delivered to the application's listeners
    codeExpired,        \* the expiry time of the code that carries this.clientId has passed
    scanResult,         \* how the call of processQRScan in the last step ended, "none" without one
    loadResult,         \* how the call of loadSession in the last step ended, "none" without one
    closedByCaller,     \* the caller's last call was disconnect() or logout(), not connect() or generateQR()
    loggedOut           \* the caller called logout() and has not called connect() since

\* the sockets the manager may have created
Sockets == DOMAIN sockets

vars == <<ws, sockets, isConnected, isConnecting, reconnectAttempts,
          maxReconnectAttempts, pingTimer, pongAge,
          messageQueue, isProcessingQueue, reconnectTimers, lastDelay, waiters,
          waIsConnected, isAuthenticated, connectionState, simulationMode,
          autoReconnect, errorListener, crashed,
          qrExpiry, simStart, simMessages, qrTimer,
          qrClientId, idCount,
          credentials, authIsAuthenticated, sessionFile, codecCredentials,
          codecKey, messageCounter, clock, built, decoded, persisted,
          rateMessages, resetTime, handlerQueue, handlerProcessing, pendingSends,
          enableRetry, maxRetries, handling, activePoll,
          formatted, flushed, handed, sendResult,
          sendCount, queuedLog, wire, failures, emitted,
          codeExpired, scanResult, loadResult, closedByCaller, loggedOut>>

\* the state at the start of a step; no event has been delivered and no call
\* has returned yet
Cur ==
    [ws |-> ws, sockets |-> sockets, isConnected |-> isConnected,
     isConnecting |-> isConnecting, reconnectAttempts |-> reconnectAttempts,
     maxReconnectAttempts |-> maxReconnectAttempts,
     pingTimer |-> pingTimer, pongAge |-> pongAge, messageQueue |-> messageQueue,
     isProcessingQueue |-> isProcessingQueue, reconnectTimers |-> reconnectTimers,
     lastDelay |-> lastDelay, waiters |-> waiters,
     waIsConnected |-> waIsConnected, isAuthenticated |-> isAuthenticated,
     connectionState |-> connectionState, simulationMode |-> simulationMode,
     autoReconnect |-> autoReconnect, errorListener |-> errorListener,
     crashed |-> crashed,
     qrExpiry |-> qrExpiry, simStart |-> simStart, simMessages |-> simMessages,
     qrTimer |-> qrTimer, qrClientId |-> qrClientId,
     idCount |-> idCount, credentials |-> credentials,
     authIsAuthenticated |-> authIsAuthenticated, sessionFile |-> sessionFile,
     codecCredentials |-> codecCredentials, codecKey |-> codecKey,
     messageCounter |-> messageCounter, clock |-> clock, built |-> built,
     decoded |-> decoded, persisted |-> persisted,
     rateMessages |-> rateMessages, resetTime |-> resetTime,
     handlerQueue |-> handlerQueue, handlerProcessing |-> handlerProcessing,
     pendingSends |-> pendingSends, formatted |-> formatted,
     enableRetry |-> enableRetry, maxRetries |-> maxRetries, handling |-> handling,
     activePoll |-> activePoll,
     flushed |-> flushed, handed |-> handed,
     sendResult |-> "none",
     codeExpired |-> codeExpired, scanResult |-> "none", loadResult |-> "none",
     closedByCaller |-> closedByCaller, loggedOut |-> loggedOut,
     sendCount |-> sendCount, queuedLog |-> queuedLog, wire |-> wire,
     failures |-> failures,
     emitted |-> {}, inBounds |-> TRUE]

\* the state at the end of a step
Commit(s) ==
    /\ ~crashed
    /\ s.inBounds
    /\ s.reconnectTimers <= MaxTimers
    /\ s.qrExpiry <= MaxQRExpiry
    /\ s.simStart <= MaxSimStart
    /\ s.simMessages <= SimMessages
    /\ s.idCount <= MaxChallenges
    /\ Len(s.handlerQueue) <= MaxQueued
    /\ s.pendingSends <= MaxPending
    /\ s.handed <= MaxHanded
    /\ s.clock <= MaxClock
    /\ ws' = s.ws
    /\ sockets' = s.sockets
    /\ isConnected' = s.isConnected
    /\ isConnecting' = s.isConnecting
    /\ reconnectAttempts' = s.reconnectAttempts
    /\ maxReconnectAttempts' = s.maxReconnectAttempts
    /\ pingTimer' = s.pingTimer
    /\ pongAge' = s.pongAge
    /\ messageQueue' = s.messageQueue
    /\ isProcessingQueue' = s.isProcessingQueue
    /\ reconnectTimers' = s.reconnectTimers
    /\ lastDelay' = s.lastDelay
    /\ waiters' = s.waiters
    /\ waIsConnected' = s.waIsConnected
    /\ isAuthenticated' = s.isAuthenticated
    /\ connectionState' = s.connectionState
    /\ simulationMode' = s.simulationMode
    /\ autoReconnect' = s.autoReconnect
    /\ errorListener' = s.errorListener
    /\ crashed' = s.crashed
    /\ qrExpiry' = s.qrExpiry
    /\ simStart' = s.simStart
    /\ simMessages' = s.simMessages
    /\ qrTimer' = s.qrTimer
    /\ qrClientId' = s.qrClientId
    /\ idCount' = s.idCount
    /\ credentials' = s.credentials
    /\ authIsAuthenticated' = s.authIsAuthenticated
    /\ sessionFile' = s.sessionFile
    /\ codecCredentials' = s.codecCredentials
    /\ codecKey' = s.codecKey
    /\ messageCounter' = s.messageCounter
    /\ clock' = s.clock
    /\ built' = s.built
    /\ decoded' = s.decoded
    /\ persisted' = s.persisted
    /\ rateMessages' = s.rateMessages
    /\ resetTime' = s.resetTime
    /\ handlerQueue' = s.handlerQueue
    /\ handlerProcessing' = s.handlerProcessing
    /\ pendingSends' = s.pendingSends
    /\ formatted' = s.formatted
    /\ enableRetry' = s.enableRetry
    /\ maxRetries' = s.maxRetries
    /\ handling' = s.handling
    /\ activePoll' = s.activePoll
    /\ flushed' = s.flushed
    /\ handed' = s.handed
    /\ sendResult' = s.sendResult
    /\ codeExpired' = s.codeExpired
    /\ scanResult' = s.scanResult
    /\ loadResult' = s.loadResult
    /\ closedByCaller' = s.closedByCaller
    /\ loggedOut' = s.loggedOut
    /\ sendCount' = s.sendCount
    /\ queuedLog' = s.queuedLog
    /\ wire' = s.wire
    /\ failures' = s.failures
    /\ emitted' = s.emitted

\* the state after new WebSocketManager(options), new WhatsApp(options), with
\* the session file the AuthManager finds on disk
Constructed(attempts, slots, file) ==
    /\ maxReconnectAttempts = attempts
    /\ sessionFile = file
    /\ qrClientId = 0
    /\ idCount = 0
    /\ credentials = FALSE
    /\ authIsAuthenticated = FALSE
    /\ codecCredentials = FALSE
    /\ codecKey = 0
    /\ messageCounter = 0
    /\ clock = 1
    /\ built = <<>>
    /\ decoded = <<>>
    /\ persisted = <<>>
    /\ rateMessages = 0
    /\ resetTime = clock
    /\ handlerQueue = <<>>
    /\ handlerProcessing = FALSE
    /\ pendingSends = 0
    /\ formatted = <<>>
    /\ handling = NotHandling
    /\ activePoll = [p \in PollIds |-> <<>>]
    /\ flushed = <<>>
    /\ handed = 0
    /\ sendResult = "none"
    /\ codeExpired = FALSE
    /\ scanResult = "none"
    /\ loadResult = "none"
    /\ closedByCaller = FALSE
    /\ loggedOut = FALSE
    /\ ws = 0
    /\ sockets = [i \in 1..slots |-> "none"]
    /\ isConnected = FALSE
    /\ isConnecting = FALSE
    /\ reconnectAttempts = 0
    /\ pingTimer = FALSE
    /\ pongAge = 0
    /\ messageQueue = <<>>
    /\ isProcessingQueue = FALSE
    /\ reconnectTimers = 0
    /\ lastDelay = 0
    /\ waiters = NoWaiters
    /\ waIsConnected = FALSE
    /\ isAuthenticated = FALSE
    /\ connectionState = "close"
    /\ simulationMode = FALSE
    /\ crashed = FALSE
    /\ qrExpiry = 0
    /\ simStart = 0
    /\ simMessages = 0
    /\ qrTimer = FALSE
    /\ sendCount = 0
    /\ queuedLog = <<>>
    /\ wire = <<>>
    /\ failures = 0
    /\ emitted = {}

\* the options left out (autoReconnect is true unless false is passed), and an
\* application that listens to the client's 'error'
DefaultOptions ==
    /\ autoReconnect = TRUE
    /\ errorListener = TRUE
    /\ enableRetry = TRUE
    /\ maxRetries = DefaultMaxRetries

Init == DefaultOptions /\ Constructed(ClientAttempts, ClientSockets, <<>>)

InitTransport == DefaultOptions /\ Constructed(TransportAttempts, TransportSockets, <<>>)

InitReconnect == DefaultOptions /\ Constructed(ReconnectAttempts, ReconnectSockets, <<>>)

InitPairing == DefaultOptions /\ Constructed(SessionAttempts, ClientSockets, <<>>)

\* new ErrorHandler(options)
InitRetry ==
    /\ autoReconnect = TRUE
    /\ errorListener = TRUE
    /\ enableRetry \in BOOLEAN
    /\ \E option \in MaxRetriesOptions :
          maxRetries = IF option = 0 THEN DefaultMaxRetries ELSE option
    /\ Constructed(SessionAttempts, ClientSockets, <<>>)

InitMessages == DefaultOptions /\ Constructed(SessionAttempts, ClientSockets, <<>>)

InitCodec == DefaultOptions /\ Constructed(SessionAttempts, ClientSockets, <<>>)

InitSession ==
    /\ DefaultOptions
    /\ \E file \in StoredSessions : Constructed(SessionAttempts, ClientSockets, file)

\* the client constructed with any value of autoReconnect, by an application
\* that may or may not listen to 'error'
InitOptions ==
    /\ autoReconnect \in BOOLEAN
    /\ errorListener \in BOOLEAN
    /\ enableRetry = autoReconnect
    /\ maxRetries = DefaultMaxRetries
    /\ Constructed(SessionAttempts, ClientSockets, <<>>)

Pow2(n) == 2 ^ n

Min(a, b) == IF a <= b THEN a ELSE b

Emit(s, event) == [s EXCEPT !.emitted = @ \cup {event}]

\* the event 'connection.update' with the given value of its connection field
ConnectionUpdate(connection) ==
    CASE connection = "open" -> "connection.update:open"
      [] connection = "close" -> "connection.update:close"
      [] connection = "connecting" -> "connection.update:connecting"

(* ------------------ WhatsApp: listeners and pairing -------------------- *)

\* WhatsApp.handleConnectionOpen, the listener of the manager's 'open'
handleConnectionOpen(s) ==
    [s EXCEPT !.waIsConnected = TRUE, !.connectionState = "open"]

\* WhatsApp.handleConnectionClose, the listener of the manager's 'close'
handleConnectionClose(s) ==
    [s EXCEPT !.waIsConnected = FALSE, !.connectionState = "close"]

\* WhatsApp.handleConnectionUpdate, the listener of the manager's 'connection.update'
handleConnectionUpdate(s, connection) ==
    Emit([s EXCEPT !.connectionState = connection], ConnectionUpdate(connection))

\* this.emit('error', error) of the client: without a listener emit throws
EmitError(s) ==
    IF s.errorListener THEN Emit(s, "error") ELSE [s EXCEPT !.crashed = TRUE]

\* WhatsApp.handleConnectionError, the listener of the manager's 'error'; what
\* it throws escapes the manager's emit and the socket's listener
handleConnectionError(s) == EmitError(s)

\* WhatsApp.generateQR: emits the pairing code and starts a 60 s timer that is
\* never stored, so nothing can cancel it
generateQR(s) ==
    Emit([s EXCEPT !.qrExpiry = @ + 1], "qr")

(* -------------------------- WebSocketManager --------------------------- *)

\* WebSocketManager.stopPingInterval
stopPingInterval(s) == [s EXCEPT !.pingTimer = FALSE]

\* WebSocketManager.startPingInterval: the part that runs at once
startPingInterval(s) == [stopPingInterval(s) EXCEPT !.pingTimer = TRUE]

\* the backoff as the specification words it, base x 2^attempt: a variant of
\* Backoff that C7 tells apart from the code's exponent
BackoffFromAttempt(attempts) == reconnectDelay * Pow2(attempts)

\* the delay scheduleReconnect computes for the given value of reconnectAttempts
Backoff(attempts) == reconnectDelay * Pow2(attempts - 1)

\* WebSocketManager.scheduleReconnect: the part that runs at once
scheduleReconnect(s) ==
    LET n == s.reconnectAttempts + 1
    IN  [s EXCEPT !.reconnectAttempts = n,
                  !.lastDelay = Backoff(n),
                  !.reconnectTimers = @ + 1]

\* ws.send of the 'ws' package throws while the socket is still connecting;
\* on an open, closing or closed socket it returns normally
WsSendThrows(s) == s.sockets[s.ws] = "connecting"

\* one turn of the while loop of processMessageQueue, up to its 100 ms wait.
\* The loop calls this.send, which queues again when this.ws is null.
flushTurn(s) ==
    IF s.messageQueue # <<>> /\ s.isConnected
    THEN LET message == Head(s.messageQueue)
             rest == Tail(s.messageQueue)
         IN  IF s.ws = 0
             THEN [s EXCEPT !.messageQueue = Append(rest, message)]
             ELSE IF WsSendThrows(s)
             THEN [s EXCEPT !.messageQueue = <<message>> \o rest,
                            !.isProcessingQueue = FALSE]
             ELSE [s EXCEPT !.messageQueue = rest,
                            !.wire = Append(@, message)]
    ELSE [s EXCEPT !.isProcessingQueue = FALSE]

\* WebSocketManager.processMessageQueue: the call, which runs the first turn
processMessageQueue(s) ==
    IF s.isProcessingQueue \/ s.messageQueue = <<>>
    THEN s
    ELSE flushTurn([s EXCEPT !.isProcessingQueue = TRUE])

\* WebSocketManager.disconnect; the socket loses its listeners and is dropped
disconnect(s) ==
    LET s1 == stopPingInterval(s)
        s2 == IF s1.ws # 0
              THEN [s1 EXCEPT !.sockets[s1.ws] = "none", !.ws = 0]
              ELSE s1
    IN  [s2 EXCEPT !.isConnected = FALSE,
                   !.isConnecting = FALSE,
                   !.reconnectAttempts = s.maxReconnectAttempts,
                   !.failures = 0]

\* WhatsApp.startSimulationMode: the part that runs at once
startSimulationMode(s) ==
    LET s1 == IF s.isConnected THEN disconnect(s) ELSE s
    IN  [s1 EXCEPT !.simStart = @ + 1]

\* the continuation of each caller that awaits connect(), once the wait is over.
\* WhatsApp.connect calls generateQR whether connectToWhatsApp succeeded or
\* threw; WhatsApp.handleQRScanned turns to simulation mode when it threw; the
\* reconnect timer only logs
RECURSIVE afterConnect(_, _, _, _)
afterConnect(s, caller, times, rejected) ==
    IF times = 0 \/ caller = "timer" \/ (caller = "scan" /\ ~rejected)
    THEN s
    ELSE IF caller = "client"
    THEN afterConnect(generateQR(s), caller, times - 1, rejected)
    ELSE afterConnect(startSimulationMode([s EXCEPT !.simulationMode = TRUE]),
                      caller, times - 1, rejected)

\* the manager emits 'open' or 'error': every pending waitForConnection settles.
\* A rejection runs the catch of connect(), which clears isConnecting.
settleWaiters(s, rejected) ==
    LET pending == s.waiters["client"] + s.waiters["timer"] + s.waiters["scan"]
        s1 == [s EXCEPT !.waiters = NoWaiters,
                        !.isConnecting = IF rejected /\ pending > 0 THEN FALSE ELSE @,
                        !.failures = IF rejected
                                     THEN Min(@ + pending, s.maxReconnectAttempts + 1)
                                     ELSE @]
        s2 == afterConnect(s1, "client", s.waiters["client"], rejected)
        s3 == afterConnect(s2, "timer", s.waiters["timer"], rejected)
    IN  afterConnect(s3, "scan", s.waiters["scan"], rejected)

\* a variant of handleOpen that keeps reconnectAttempts as it was: C6 tells it
\* apart from the code's reset
handleOpenKeepsAttempts(s) ==
    LET s1 == [s EXCEPT !.isConnected = TRUE,
                        !.isConnecting = FALSE,
                        !.pongAge = 0,
                        !.failures = 0]
        s2 == processMessageQueue(startPingInterval(s1))
    IN  handleConnectionUpdate(handleConnectionOpen(s2), "open")

\* WebSocketManager.handleOpen, without the continuations of the waiters
handleOpen(s) ==
    LET s1 == [s EXCEPT !.isConnected = TRUE,
                        !.isConnecting = FALSE,
                        !.reconnectAttempts = 0,
                        !.pongAge = 0,
                        !.failures = 0]
        s2 == processMessageQueue(startPingInterval(s1))
    IN  handleConnectionUpdate(handleConnectionOpen(s2), "open")

\* WebSocketManager.handleClose for the close event of socket sock
handleClose(s, sock, code) ==
    LET s1 == [stopPingInterval(s) EXCEPT
                   !.isConnected = FALSE,
                   !.isConnecting = FALSE,
                   !.sockets[sock] = IF sock = s.ws THEN "closed" ELSE "none"]
        s2 == handleConnectionUpdate(handleConnectionClose(s1), "close")
    IN  IF code # NormalClosure /\ s2.reconnectAttempts < s2.maxReconnectAttempts
        THEN scheduleReconnect(s2)
        ELSE s2

\* WebSocketManager.handleError, without the continuations of the waiters
handleError(s) == handleConnectionError(s)

\* the manager emits 'error': the listener of WhatsApp runs first, and if it
\* returns, the pending waitForConnection calls are rejected
errorEvent(s) ==
    LET s1 == handleError(s)
    IN  IF s1.crashed THEN s1 ELSE settleWaiters(s1, TRUE)

FreeSockets(s) == {i \in DOMAIN s.sockets : s.sockets[i] \in {"none", "closed"}}

\* WebSocketManager.connect called by caller, up to the await of waitForConnection
connect(s, caller) ==
    IF s.isConnecting \/ s.isConnected
    THEN afterConnect(s, caller, 1, FALSE)
    ELSE IF FreeSockets(s) = {} \/ s.waiters[caller] >= MaxWaiters
    THEN [s EXCEPT !.inBounds = FALSE]
    ELSE LET new == CHOOSE i \in FreeSockets(s) : \A j \in FreeSockets(s) : i <= j
         IN  [s EXCEPT !.isConnecting = TRUE,
                       !.ws = new,
                       !.sockets = [i \in DOMAIN @ |->
                                       IF i = new THEN "connecting"
                                       ELSE IF @[i] = "closed" THEN "none" ELSE @[i]],
                       !.waiters[caller] = @ + 1]

\* WebSocketManager.send called with the payload of the n-th call
send(s, payload) ==
    IF ~s.isConnected \/ s.ws = 0
    THEN [s EXCEPT !.messageQueue = Append(@, payload),
                   !.queuedLog = Append(@, payload)]
    ELSE IF WsSendThrows(s)
    THEN s
    ELSE [s EXCEPT !.wire = Append(@, payload)]

(* ------------------------ WhatsApp: simulation ------------------------- *)

\* WhatsApp.disconnect
waDisconnect(s) ==
    Emit([disconnect(s) EXCEPT !.waIsConnected = FALSE,
                               !.isAuthenticated = FALSE,
                               !.connectionState = "close"],
         ConnectionUpdate("close"))

\* WhatsApp.generateQR: the callback of its 60 s timer
qrExpired(s) ==
    IF ~s.isAuthenticated
    THEN startSimulationMode([s EXCEPT !.simulationMode = TRUE])
    ELSE s

\* WhatsApp.startSimulationMode: the callback of its 2 s timer, which calls
\* simulateIncomingMessages
simulationOpen(s) ==
    Emit([s EXCEPT !.waIsConnected = TRUE,
                   !.isAuthenticated = TRUE,
                   !.connectionState = "open",
                   !.simMessages = @ + SimMessages],
         ConnectionUpdate("open"))

(* ------------------------------ QRManager ------------------------------ *)

\* QRManager.stopQRTimer
stopQRTimer(s) == [s EXCEPT !.qrTimer = FALSE]

\* QRManager.startQRTimer: the part that runs at once
startQRTimer(s) == [stopQRTimer(s) EXCEPT !.qrTimer = TRUE]

\* QRManager.generateQRData: draws a new random clientId
generateQRData(s) ==
    [s EXCEPT !.idCount = @ + 1, !.qrClientId = s.idCount + 1, !.codeExpired = FALSE]

\* QRManager.extractQRData: only an object that is not itself a code makes the
\* manager generate one; a given code leaves this.clientId as it was
extractQRData(s, authData) ==
    IF authData = "object" THEN generateQRData(s) ELSE s

\* QRManager.generateQR; its 'qr' event reaches WhatsApp.handleQRUpdate
qrGenerateQR(s, authData) == Emit(startQRTimer(extractQRData(s, authData)), "qr")

\* QRManager.refreshQR
refreshQR(s) == qrGenerateQR(generateQRData(s), "code")

\* QRManager.startQRTimer: the callback, which emits 'qr.expired' (passed on by
\* WhatsApp.handleQRExpired) and calls refreshQR
qrTimerExpired(s) == refreshQR(Emit(s, "qr.expired"))

\* QRManager.clear
clear(s) == [stopQRTimer(s) EXCEPT !.qrClientId = 0, !.codeExpired = FALSE]

\* a variant of validateQRScan without the comparison of the client
\* identifiers: C11 tells it apart from the code's
validateQRScanAnyClient(s, scanData) == scanData.fields = requiredFields

\* QRManager.validateQRScan
validateQRScan(s, scanData) ==
    /\ scanData.fields = requiredFields
    /\ scanData.clientId = s.qrClientId

(* ----------------------------- AuthManager ----------------------------- *)

\* AuthManager.clearSession
clearSession(s) ==
    [s EXCEPT !.sessionFile = <<>>, !.credentials = FALSE,
              !.authIsAuthenticated = FALSE]

\* a variant of isSessionExpired under which no session is too old: C15 tells
\* it apart from the code's
isSessionExpiredNever(session) == FALSE

\* AuthManager.isSessionExpired
isSessionExpired(session) == session.age > maxAge

\* AuthManager.loadSession; its 'auth.loaded' event reaches WhatsApp.handleAuthLoaded
loadSession(s) ==
    IF s.sessionFile = <<>>
    THEN [s EXCEPT !.loadResult = "absent"]
    ELSE IF ~s.sessionFile[1].valid
    THEN [clearSession(s) EXCEPT !.loadResult = "invalid"]
    ELSE IF isSessionExpired(s.sessionFile[1])
    THEN [clearSession(s) EXCEPT !.loadResult = "expired"]
    ELSE Emit([s EXCEPT !.credentials = TRUE, !.authIsAuthenticated = TRUE,
                        !.loadResult = "loaded"],
              "auth.loaded")

\* AuthManager.validateQRCredentials for credentials that processQRScan built:
\* their four required fields are present
validateQRCredentials(scanData) == scanData.secretLength >= SecretKeyLength

\* WhatsApp.handleAuthSuccess, the listener of the AuthManager's 'auth.success'
handleAuthSuccess(s) ==
    Emit(Emit([s EXCEPT !.isAuthenticated = TRUE, !.codecCredentials = TRUE,
                        !.codecKey = SessionKey],
              "auth.success"),
         ConnectionUpdate("open"))

\* WhatsApp.handleAuthFailed, the listener of the AuthManager's 'auth.failed'
handleAuthFailed(s) == Emit([s EXCEPT !.isAuthenticated = FALSE], "auth.failed")

\* AuthManager.authenticate with saveSession, which writes the file at once
authenticate(s, scanData) ==
    IF validateQRCredentials(scanData)
    THEN handleAuthSuccess([s EXCEPT !.credentials = TRUE,
                                     !.authIsAuthenticated = TRUE,
                                     !.sessionFile = <<[age |-> 0, valid |-> TRUE]>>])
    ELSE handleAuthFailed([s EXCEPT !.authIsAuthenticated = FALSE])

\* AuthManager.logout
authLogout(s) == clearSession(s)

(* --------------------- WhatsApp: session and frames -------------------- *)

\* WhatsApp.handleQRScanned, the listener of the QRManager's 'qr.scanned'
handleQRScanned(s, scanData) ==
    IF validateQRCredentials(scanData)
    THEN connect([authenticate(s, scanData) EXCEPT !.isAuthenticated = TRUE,
                                                   !.simulationMode = FALSE],
                 "scan")
    ELSE Emit(authenticate(s, scanData), "auth.failed")

\* QRManager.processQRScan: an invalid scan throws before anything else is done
processQRScan(s, scanData) ==
    IF validateQRScan(s, scanData)
    THEN handleQRScanned(Emit(stopQRTimer([s EXCEPT !.scanResult = "accepted"]),
                              "qr.scanned"),
                         scanData)
    ELSE [s EXCEPT !.scanResult = "rejected"]

\* WhatsApp.connect: a stored session that loads makes the client authenticated
\* and then calls connectWithSession, which this class does not define, so the
\* call throws; without one the client goes on to connectToWhatsApp
waConnect(s) ==
    LET s1 == loadSession(s)
    IN  IF s1.loadResult = "loaded"
        THEN [s1 EXCEPT !.isAuthenticated = TRUE]
        ELSE connect(s1, "client")

\* WhatsApp.logout
logout(s) == authLogout(waDisconnect(s))

\* WebSocketManager.isReady
isReady(s) == s.isConnected /\ s.ws # 0 /\ s.sockets[s.ws] = "open"

\* WhatsApp.sendMessage: outside simulation mode the message is encoded and,
\* if the manager is ready, sent
sendMessage(s) ==
    IF s.simulationMode \/ ~isReady(s)
    THEN s
    ELSE send([s EXCEPT !.sendCount = @ + 1], s.sendCount + 1)

\* WhatsApp.sendMessage resolves with success: true unless encodeMessage or
\* WebSocketManager.send throws
sendMessageSucceeds(s) == s.simulationMode \/ ~isReady(s) \/ ~WsSendThrows(s)

\* a variant of validatePacket that does not ask for a timestamp: C20 tells it
\* apart from the code's
validatePacketAnyTime(frame) == frame \notin {"binary", "noType"}

\* PacketParser.validatePacket for what WebSocketManager.handleMessage passes
\* on: a binary frame arrives as an object of type 'binary' without timestamp
validatePacket(frame) == frame \notin {"binary", "noType", "noTimestamp"}

\* PacketParser.routePacket with the handlers of setupDefaultHandlers and the
\* listeners of WhatsApp: nothing listens to the parser's 'auth.success'
routePacket(s, frame) ==
    CASE frame \in {"message", "noTimestamp"} \cup SignedFrames -> Emit(s, "messages.upsert")
      [] frame = "presence" -> Emit(s, "presence.update")
      [] frame = "reaction" -> Emit(s, "messages.reaction")
      [] frame = "group_update" -> Emit(s, "groups.update")
      [] OTHER -> s

\* PacketParser.verifySignature for a packet that carries a signature: without
\* credentials no signature verifies
verifySignature(s, frame) == s.codecCredentials /\ frame = "signed"

\* WhatsApp.handleParserError, the listener of the parser's 'error': what it
\* throws rejects parsePacket, and WhatsApp.handleIncomingMessage catches that
handleParserError(s) == [EmitError(s) EXCEPT !.crashed = s.crashed]

\* PacketParser.parsePacket, called by WhatsApp.handleIncomingMessage; its
\* 'error' event reaches WhatsApp.handleParserError. A signature that does not
\* verify is logged, and the packet is routed like any other.
parsePacket(s, frame) ==
    IF ~validatePacket(frame)
    THEN handleParserError(s)
    ELSE IF frame \in SignedFrames /\ ~verifySignature(s, frame)
    THEN routePacket(s, frame)
    ELSE routePacket(s, frame)

\* WebSocketManager.handleMessage: a frame it cannot parse makes the manager
\* emit 'error', which also rejects every pending waitForConnection
handleMessage(s, frame) ==
    IF frame \in {"badJson", "shortBinary"}
    THEN errorEvent(s)
    ELSE parsePacket(s, frame)

(* ---------------------- PacketBuilder, PacketParser -------------------- *)

\* the order in which buildMessagePacket sets the fields of a packet
InsertionOrder ==
    <<"type", "messageId", "to", "messageType", "content", "timestamp", "counter",
      "from", "signature">>

\* Object.keys(packet).sort()
SortedKeys ==
    <<"content", "counter", "from", "messageId", "messageType", "signature",
      "timestamp", "to", "type">>

\* JSON.stringify of a flat packet: its fields, named and in the given order
JSONstringify(packet, order) ==
    LET keys == SelectSeq(order, LAMBDA k : k \in DOMAIN packet)
    IN  [i \in 1..Len(keys) |-> <<keys[i], packet[keys[i]]>>]

\* JSON.parse of such a text
JSONparse(text) ==
    [k \in {text[i][1] : i \in DOMAIN text} |->
        text[CHOOSE i \in DOMAIN text : text[i][1] = k][2]]

\* CryptoUtil.createSignature: an HMAC, which is taken to differ whenever the
\* data or the secret differ
createSignature(data, secret) == <<"hmac", data, secret>>

\* CryptoUtil.validateSignature
validateSignature(data, signature, secret) == signature = createSignature(data, secret)

\* a variant of signPacket that signs the fields in the order they were set:
\* C22 tells it apart from the code's
signPacketUnsorted(s, packet) ==
    createSignature(JSONstringify(packet, InsertionOrder), s.codecKey)

\* PacketBuilder.signPacket for credentials with a secretKey
signPacket(s, packet) ==
    createSignature(JSONstringify(packet, SortedKeys), s.codecKey)

\* PacketBuilder.buildMessagePacket with the value generateMessageId returned
buildMessagePacket(s, message, messageId) ==
    LET counter == s.messageCounter + 1
        packet == [type |-> "message", messageId |-> messageId, to |-> message.to,
                   messageType |-> message.messageType, content |-> message.content,
                   timestamp |-> s.clock, counter |-> counter]
        from == ("from" :> "self") @@ packet
        signed == IF s.codecCredentials
                  THEN ("signature" :> signPacket(s, from)) @@ from
                  ELSE packet
    IN  [s EXCEPT !.messageCounter = counter,
                  !.built = <<[message |-> message, signed |-> s.codecCredentials,
                               frame |-> JSONstringify(signed, InsertionOrder)]>>]

\* PacketParser.verifySignature for a parsed packet
verifyPacketSignature(s, packet) ==
    IF ~s.codecCredentials \/ "signature" \notin DOMAIN packet
    THEN FALSE
    ELSE LET withoutSignature == [k \in DOMAIN packet \ {"signature"} |-> packet[k]]
         IN  validateSignature(JSONstringify(withoutSignature, SortedKeys),
                               packet.signature, s.codecKey)

\* PacketParser.handleMessage: the message of its 'messages.upsert' event
messageData(packet) ==
    [to |-> packet.to, content |-> packet.content,
     messageType |-> IF packet.messageType = "" THEN "conversation"
                     ELSE packet.messageType]

\* PacketParser.parsePacket for the text of a message packet
decodePacket(s, text) ==
    LET packet == JSONparse(text)
    IN  IF "type" \notin DOMAIN packet \/ "timestamp" \notin DOMAIN packet
        THEN Emit([s EXCEPT !.decoded = <<>>], "error")
        ELSE Emit([s EXCEPT !.decoded =
                       <<[message |-> messageData(packet),
                          verified |-> verifyPacketSignature(s, packet)]>>],
                  "messages.upsert")

(* ----------------------------- ErrorHandler ---------------------------- *)

ErrorCodes ==
    {"CONNECTION_FAILED", "AUTH_FAILED", "SESSION_EXPIRED", "INVALID_MESSAGE",
     "FILE_TOO_LARGE", "UNSUPPORTED_FILE", "RATE_LIMITED", "NETWORK_ERROR"}

nonRetryableCodes ==
    {"AUTH_FAILED", "INVALID_MESSAGE", "FILE_TOO_LARGE", "UNSUPPORTED_FILE"}

\* what the operation may throw: a ChatPulseError with a code, or another error
\* marked by its code or by what its message contains
Thrown ==
    [kind : {"ChatPulseError"}, mark : ErrorCodes] \cup
    [kind : {"Error"},
     mark : {"ECONNREFUSED", "ECONNRESET", "401", "403", "429", "other"}]

\* how a call of the operation ends
Outcomes == {[kind |-> "returned", mark |-> "none"]} \cup Thrown

\* ErrorHandler.createError: the code of the error it returns
createError(error) ==
    IF error.kind = "ChatPulseError" THEN error.mark
    ELSE CASE error.mark = "ECONNREFUSED" -> "CONNECTION_FAILED"
           [] error.mark = "ECONNRESET" -> "NETWORK_ERROR"
           [] error.mark = "401" -> "AUTH_FAILED"
           [] error.mark = "403" -> "SESSION_EXPIRED"
           [] error.mark = "429" -> "RATE_LIMITED"
           [] OTHER -> "NETWORK_ERROR"

\* a variant of shouldRetry that retries whatever the code is: C33 tells it
\* apart from the code's
shouldRetryAnyCode(s, code, retryCount) ==
    ~(~s.enableRetry \/ retryCount >= s.maxRetries)

\* ErrorHandler.shouldRetry
shouldRetry(s, code, retryCount) ==
    IF ~s.enableRetry \/ retryCount >= s.maxRetries
    THEN FALSE
    ELSE code \notin nonRetryableCodes

\* ErrorHandler.handle called with retryCount, up to its delay or its end; the
\* operation ends with outcome
handle(s, outcome, retryCount) ==
    LET called == [s.handling EXCEPT !.invocations = @ + 1, !.retryCount = retryCount]
    IN  IF outcome.kind = "returned"
        THEN [s EXCEPT !.handling = [called EXCEPT !.phase = "returned"]]
        ELSE LET code == createError(outcome)
             IN  IF shouldRetry(s, code, retryCount)
                 THEN [s EXCEPT !.handling =
                          [called EXCEPT !.phase = "delaying", !.code = code,
                                         !.delay = retryDelay * Pow2(retryCount)]]
                 ELSE [s EXCEPT !.handling =
                          [called EXCEPT !.phase = "threw", !.code = code]]

(* ------------------------------ PollHandler ---------------------------- *)

\* how many elements of the array are the id
Occurrences(array, id) == Cardinality({k \in DOMAIN array : array[k] = id})

\* PollHandler.createPoll with two options, for the poll id generateMessageId
\* returned: the poll is stored and then the call throws a TypeError, since
\* PacketBuilder has no buildPollPacket
createPoll(s, pollId, multipleChoice) ==
    [s EXCEPT !.activePoll[pollId] =
        <<[multipleChoice |-> multipleChoice,
           options |-> [i \in OptionIds |-> 0],
           votes |-> [v \in Voters |-> <<>>]]>>]

\* PollHandler.votePoll up to its call of buildPollVotePacket, which
\* PacketBuilder does not have either; a ballot of <<>> is a voter without one
votePoll(s, pollId, optionIds, voterId) ==
    IF s.activePoll[pollId] = <<>>
    THEN s
    ELSE LET poll == s.activePoll[pollId][1]
             validOptionIds == SelectSeq(optionIds, LAMBDA id : id \in OptionIds)
             previousVotes == poll.votes[voterId]
         IN  IF Len(optionIds) > 1 /\ ~poll.multipleChoice
             THEN s
             ELSE IF validOptionIds = <<>>
             THEN s
             ELSE [s EXCEPT !.activePoll[pollId] =
                      <<[poll EXCEPT
                            !.options = [i \in OptionIds |->
                                            @[i] - Occurrences(previousVotes, i)
                                                 + Occurrences(validOptionIds, i)],
                            !.votes[voterId] = validOptionIds]>>]

(* ---------------------------- MessageHandler --------------------------- *)

\* values of a parameter of sendText, editMessage and sendLocation
ArgValues == {"undefined", "null", "", "123"}

\* the lists of n parameters of which at most one is missing
Arguments(n) ==
    {args \in [1..n -> ArgValues] : Cardinality({i \in 1..n : args[i] # "123"}) <= 1}

\* a variant of validateRequired that takes the empty string for a value: C30
\* tells it apart from the code's
validateRequiredDefined(params) ==
    \A i \in DOMAIN params : params[i] \notin {"undefined", "null"}

\* ErrorHandler.validateRequired: TRUE if it does not throw
validateRequired(params) ==
    \A i \in DOMAIN params : params[i] \notin {"undefined", "null", ""}

\* a string is a sequence of pieces: a digit, '-', '@', and the two suffixes
\* written as one piece each
Pieces == {"1", "-", "@", "g.us", "s.whatsapp.net"}

Str(pieces) == [kind |-> "string", pieces |-> pieces]

Null == [kind |-> "null", pieces |-> <<>>]

Undefined == [kind |-> "undefined", pieces |-> <<>>]

\* the arguments of formatJid
Jids ==
    {Null, Undefined} \cup
    {Str(pieces) : pieces \in UNION {[1..n -> Pieces] : n \in 0..MaxJidLength}}

\* jid.split('@')[0]
BeforeAt(pieces) ==
    IF \E i \in DOMAIN pieces : pieces[i] = "@"
    THEN SubSeq(pieces, 1, (CHOOSE i \in DOMAIN pieces :
                               /\ pieces[i] = "@"
                               /\ \A j \in 1..(i - 1) : pieces[j] # "@") - 1)
    ELSE pieces

\* jid.includes('-')
HasDash(pieces) == \E i \in DOMAIN pieces : pieces[i] = "-"

\* MessageHandler.formatJid
formatJid(jid) ==
    IF jid.kind # "string" \/ jid.pieces = <<>>
    THEN Null
    ELSE LET base == BeforeAt(jid.pieces)
         IN  IF HasDash(base)
             THEN Str(base \o <<"@", "g.us">>)
             ELSE Str(base \o <<"@", "s.whatsapp.net">>)

\* the value of a parameter as an argument of formatJid
ArgJid(value) ==
    CASE value = "undefined" -> Undefined
      [] value = "null" -> Null
      [] value = "" -> Str(<<>>)
      [] OTHER -> Str(<<"1">>)

\* MessageHandler.checkRateLimit up to its test of the counter. Date.now() +
\* 60000 is written as the clock value during which it falls
checkRateLimit(s) ==
    IF s.clock > s.resetTime
    THEN [s EXCEPT !.rateMessages = 0, !.resetTime = s.clock]
    ELSE s

\* MessageHandler.updateRateLimit
updateRateLimit(s) == [s EXCEPT !.rateMessages = @ + 1]

\* MessageHandler.sendMessage up to its await of wsManager.send. messageId is
\* the value generateMessageId returns to sendMessage, which is stored in the
\* message data and returned to the caller; packetId is the value it returns
\* to buildMessagePacket
handlerSendMessage(s, message, messageId, packetId) ==
    LET s1 == checkRateLimit(s)
    IN  IF s1.rateMessages >= RateLimitMax
        THEN [s1 EXCEPT !.sendResult = "rateLimited"]
        ELSE LET s2 == buildMessagePacket(s1, ("messageId" :> messageId) @@ message,
                                          packetId)
             IN  IF ~isReady(s2)
                 THEN [s2 EXCEPT !.handlerQueue = Append(@, s2.messageCounter),
                                 !.sendResult = "queued"]
                 ELSE [send(s2, s2.messageCounter) EXCEPT !.handed = @ + 1,
                                                 !.pendingSends = @ + 1,
                                                 !.sendResult = "sending"]

\* MessageHandler.sendText; the content of a message is the list of the values
\* it holds: the text, or the latitude and the longitude
sendText(s, to, text, messageId, packetId) ==
    IF ~validateRequired(<<to, text>>)
    THEN [s EXCEPT !.sendResult = "rejected"]
    ELSE handlerSendMessage(s, [to |-> formatJid(ArgJid(to)), content |-> <<text>>,
                                messageType |-> "conversation"], messageId, packetId)

\* MessageHandler.sendLocation
sendLocation(s, to, latitude, longitude, messageId, packetId) ==
    IF ~validateRequired(<<to, latitude, longitude>>)
    THEN [s EXCEPT !.sendResult = "rejected"]
    ELSE handlerSendMessage(s, [to |-> formatJid(ArgJid(to)), content |-> <<latitude, longitude>>,
                                messageType |-> "locationMessage"], messageId, packetId)

\* MessageHandler.editMessage: PacketBuilder has no buildEditMessagePacket, so
\* with every parameter given the call throws a TypeError before it sends
editMessage(s, messageId, chatId, newText) ==
    IF ~validateRequired(<<messageId, chatId, newText>>)
    THEN [s EXCEPT !.sendResult = "rejected"]
    ELSE [s EXCEPT !.sendResult = "typeError"]

\* a variant of the loop of processQueue that takes the newest message first:
\* C31 tells it apart from the code's
processQueueTurnNewest(s, sendFails) ==
    IF s.handlerQueue # <<>> /\ isReady(s)
    THEN LET n == Len(s.handlerQueue)
         IN  [send(s, s.handlerQueue[n]) EXCEPT
                  !.handlerQueue = SubSeq(@, 1, n - 1),
                  !.flushed = Append(@, s.handlerQueue[n]),
                  !.handed = @ + 1,
                  !.handlerProcessing = TRUE]
    ELSE [s EXCEPT !.handlerProcessing = FALSE]

\* one turn of the while loop of MessageHandler.processQueue, up to its 500 ms
\* wait. The manager's send does not throw on an open socket; sendFails stands
\* for a transport whose send rejects
processQueueTurn(s, sendFails) ==
    IF s.handlerQueue # <<>> /\ isReady(s)
    THEN IF sendFails \/ WsSendThrows(s)
         THEN [s EXCEPT !.handlerProcessing = FALSE]
         ELSE [send(s, Head(s.handlerQueue)) EXCEPT
                   !.handlerQueue = Tail(@),
                   !.flushed = Append(@, Head(s.handlerQueue)),
                   !.handed = @ + 1,
                   !.handlerProcessing = TRUE]
    ELSE [s EXCEPT !.handlerProcessing = FALSE]

\* MessageHandler.processQueue up to its first wait
processQueue(s) ==
    IF s.handlerProcessing \/ s.handlerQueue = <<>>
    THEN s
    ELSE processQueueTurn(s, FALSE)

(* ---------------------- AuthManager: the session file ----------------- *)

\* a string value of a credential field: text under so many layers of base64;
\* the empty text stands for a field that is not set
Plain(text) == [text |-> text, layers |-> 0]

\* valid credentials: clientId, serverRef and secretKey are set
ValidCredentials ==
    [clientId : {Plain("c1")}, serverRef : {Plain("r1")},
     secretKey : {Plain("k1"), Plain("k2")},
     privateKey : {Plain(""), Plain("p1")},
     sessionToken : {Plain("t1")},
     clientToken : {Plain(""), Plain("ct1")}]

CredentialFields ==
    <<"clientId", "serverRef", "secretKey", "privateKey", "sessionToken", "clientToken">>

SessionFields ==
    <<"sessionId", "credentials", "createdAt", "lastUsed", "version", "encrypted">>

sensitiveFields == {"secretKey", "privateKey", "sessionToken", "clientToken"}

\* CryptoUtil.encodeBase64
encodeBase64(data) == [data EXCEPT !.layers = @ + 1]

\* AuthManager.encryptSession; the credentials it encodes are the object that
\* was passed to saveSession
encryptSession(sessionData) ==
    ("encrypted" :> TRUE) @@
    [sessionData EXCEPT !.credentials =
        [f \in DOMAIN @ |-> IF f \in sensitiveFields /\ @[f].text # ""
                            THEN encodeBase64(@[f]) ELSE @[f]]]

\* loadSession's reading of the file: JSON.parse and nothing else
readSession(text) ==
    LET session == JSONparse(text)
    IN  [session EXCEPT !.credentials = JSONparse(@)]

\* saveSession: the session data it builds around the credentials
sessionDataOf(s, given) ==
    [sessionId |-> "default", credentials |-> given,
     createdAt |-> s.clock, lastUsed |-> s.clock, version |-> "1.0.0"]

\* AuthManager.credentials when saveSession(given) has returned: encryptSession
\* copies the session data one level deep, so the credentials whose fields it
\* overwrites are the object that AuthManager.credentials refers to
credentialsAfterSave(s, given) ==
    encryptSession(sessionDataOf(s, given)).credentials

\* the text that saveSession writes for the given credentials
writeSession(s, given) ==
    LET sessionData == sessionDataOf(s, given)
        encrypted == encryptSession(sessionData)
    IN  JSONstringify([encrypted EXCEPT !.credentials = JSONstringify(@, CredentialFields)],
                      SessionFields)

\* AuthManager.validateSession for a session read from the file
validateSession(session) ==
    /\ {"sessionId", "credentials", "createdAt", "lastUsed"} \subseteq DOMAIN session
    /\ \A f \in {"clientId", "serverRef", "secretKey"} :
          f \in DOMAIN session.credentials /\ session.credentials[f].text # ""

\* AuthManager.saveSession(given) and then AuthManager.loadSession()
saveThenLoad(s, given) ==
    LET text == writeSession(s, given)
        s1 == [s EXCEPT !.credentials = TRUE,
                        !.sessionFile = <<[age |-> 0, valid |-> TRUE]>>]
        session == readSession(text)
    IN  IF ~validateSession(session)
        THEN [clearSession(s1) EXCEPT !.loadResult = "invalid", !.persisted = <<>>]
        ELSE IF isSessionExpired([age |-> s.clock - session.lastUsed])
        THEN [clearSession(s1) EXCEPT !.loadResult = "expired", !.persisted = <<>>]
        ELSE Emit([s1 EXCEPT !.authIsAuthenticated = TRUE, !.loadResult = "loaded",
                             !.persisted = <<[given |-> given,
                                              kept |-> credentialsAfterSave(s, given),
                                              loaded |-> session.credentials]>>],
                  "auth.loaded")

(* ------------------------------- actions ------------------------------- *)

\* a caller calls ErrorHandler.handle with an operation
Handle(outcome) ==
    /\ handling.phase = "idle"
    /\ Commit(handle(Cur, outcome, 0))

\* the delay before a retry ends: handle calls itself with retryCount + 1
RetryFire(outcome) ==
    /\ handling.phase = "delaying"
    /\ Commit(handle(Cur, outcome, handling.retryCount + 1))

\* the application calls PollHandler.createPoll; the id is one no poll has
CreatePoll(pollId, multipleChoice) ==
    /\ activePoll[pollId] = <<>>
    /\ Commit(createPoll(Cur, pollId, multipleChoice))

\* the application calls PollHandler.votePoll
VotePoll(pollId, optionIds, voterId) ==
    Commit(votePoll(Cur, pollId, optionIds, voterId))

\* the application calls MessageHandler.formatJid
FormatJid(jid) ==
    Commit([Cur EXCEPT !.formatted = <<[given |-> jid, result |-> formatJid(jid)]>>])

\* the application calls MessageHandler.sendText
SendText(to, text, messageId, packetId) ==
    Commit(sendText(Cur, to, text, messageId, packetId))

\* the application calls MessageHandler.sendLocation
SendLocation(to, latitude, longitude, messageId, packetId) ==
    Commit(sendLocation(Cur, to, latitude, longitude, messageId, packetId))

\* the application calls MessageHandler.editMessage
EditMessage(messageId, chatId, newText) ==
    Commit(editMessage(Cur, messageId, chatId, newText))

\* the promise of wsManager.send resolves: sendMessage goes on to updateRateLimit
SendResolved ==
    /\ pendingSends > 0
    /\ Commit(updateRateLimit([Cur EXCEPT !.pendingSends = @ - 1,
                                          !.sendResult = "success"]))

\* the application calls MessageHandler.processQueue
ProcessQueue ==
    /\ ~handlerProcessing
    /\ handlerQueue # <<>>
    /\ Commit(processQueue(Cur))

\* the 500 ms wait of processQueue ends
QueueDelay ==
    /\ handlerProcessing
    /\ Commit(processQueueTurn(Cur, FALSE))

\* AuthManager.saveSession with credentials, then AuthManager.loadSession
SaveAndLoad(given) == Commit(saveThenLoad(Cur, given))

\* PacketBuilder.updateCredentials and PacketParser.updateCredentials with the
\* same credentials, as WhatsApp.handleAuthSuccess calls them
UpdateCredentials(key) ==
    Commit([Cur EXCEPT !.codecCredentials = TRUE, !.codecKey = key])

\* a little more than 60 s pass: what was handed over before is older than 60 s
ClockTick == Commit([Cur EXCEPT !.clock = @ + 1, !.handed = 0])

\* buildMessagePacket for a message, and parsePacket for the frame it returned
BuildAndParse(message, messageId) ==
    /\ messageCounter < MaxBuilds
    /\ LET s1 == buildMessagePacket(Cur, message, messageId)
       IN  Commit(decodePacket(s1, s1.built[1].frame))


\* WebSocketManager.connect, called by a caller that only awaits it
Connect == Commit(connect(Cur, "timer"))

\* WebSocketManager.disconnect, called from outside the manager
Disconnect == Commit(disconnect(Cur))

\* WhatsApp.connect
ClientConnect ==
    Commit(waConnect([Cur EXCEPT !.closedByCaller = FALSE, !.loggedOut = FALSE]))

\* WhatsApp.disconnect
ClientDisconnect == Commit([waDisconnect(Cur) EXCEPT !.closedByCaller = TRUE])

\* WhatsApp.logout
Logout == Commit([logout(Cur) EXCEPT !.closedByCaller = TRUE, !.loggedOut = TRUE])

\* WhatsApp.sendMessage
SendMessage ==
    /\ sendCount < MaxSends
    /\ Commit(sendMessage(Cur))

\* QRManager.processQRScan, called by the application with the data of a scan
ProcessScan(scanData) == Commit(processQRScan(Cur, scanData))

\* QRManager.clear, called by the application
QRClear == Commit(clear(Cur))

\* the time of the outstanding code passes after a scan stopped its timer
QRDeadline ==
    /\ ~qrTimer
    /\ qrClientId # 0
    /\ ~codeExpired
    /\ Commit([Cur EXCEPT !.codeExpired = TRUE])

\* an open socket emits 'message'
FrameArrives(sock, frame) ==
    /\ sockets[sock] = "open"
    /\ Commit(handleMessage(Cur, frame))

\* WebSocketManager.send, called by WhatsApp.sendReaction, updatePresence or a handler
Send ==
    /\ sendCount < MaxSends
    /\ Commit(send([Cur EXCEPT !.sendCount = @ + 1], sendCount + 1))

\* the socket emits 'open'
SocketOpen(sock) ==
    /\ sockets[sock] = "connecting"
    /\ Commit(settleWaiters(handleOpen([Cur EXCEPT !.sockets[sock] = "open"]), FALSE))

\* the handshake of the socket fails: it emits 'error' and then 'close'
SocketFail(sock) ==
    /\ sockets[sock] = "connecting"
    /\ LET s1 == handleError(Cur)
       IN  Commit(IF s1.crashed THEN s1
                  ELSE settleWaiters(handleClose(s1, sock, AbnormalClosure), TRUE))

\* an open socket emits 'error'; its 'close' follows later
SocketError(sock) ==
    /\ sockets[sock] = "open"
    /\ Commit(errorEvent([Cur EXCEPT !.sockets[sock] = "errored"]))

\* an open socket emits 'close'
SocketClose(sock, code) ==
    /\ \/ sockets[sock] = "open"
       \/ sockets[sock] = "errored" /\ code = AbnormalClosure
    /\ Commit(handleClose(Cur, sock, code))

\* WebSocketManager.handlePong: an open socket emits 'pong'
SocketPong(sock) ==
    /\ sockets[sock] = "open"
    /\ Commit([Cur EXCEPT !.pongAge = 0])

\* WebSocketManager.waitForConnection: its 30 s timer fires, connect() throws
ConnectTimeout(caller) ==
    /\ waiters[caller] > 0
    /\ Commit(afterConnect([Cur EXCEPT !.waiters[caller] = @ - 1,
                                       !.isConnecting = FALSE,
                                       !.failures = Min(@ + 1, maxReconnectAttempts + 1)],
                           caller, 1, TRUE))

\* WebSocketManager.scheduleReconnect: the callback of its timer
ReconnectTimerFire ==
    /\ reconnectTimers > 0
    /\ LET s1 == [Cur EXCEPT !.reconnectTimers = @ - 1,
                             !.lastDelay = IF reconnectTimers = 1 THEN 0 ELSE @]
       IN  IF ~s1.isConnected /\ ~s1.isConnecting
           THEN Commit(connect(handleConnectionUpdate(s1, "connecting"), "timer"))
           ELSE Commit(s1)

\* WebSocketManager.startPingInterval: the callback of its interval
PingTick ==
    /\ pingTimer
    /\ LET s1 == [Cur EXCEPT !.pongAge = Min(@ + 1, PongLimit + 1)]
       IN  IF s1.isConnected /\ s1.ws # 0 /\ s1.pongAge > PongLimit
           THEN Commit(disconnect(s1))
           ELSE Commit(s1)

\* WebSocketManager.processMessageQueue: its 100 ms wait is over
FlushTick ==
    /\ isProcessingQueue
    /\ Commit(flushTurn(Cur))

\* WhatsApp.generateQR: its 60 s timer fires
QRExpiryFire ==
    /\ qrExpiry > 0
    /\ Commit(qrExpired([Cur EXCEPT !.qrExpiry = @ - 1]))

\* WhatsApp.startSimulationMode: its 2 s timer fires
SimStartFire ==
    /\ simStart > 0
    /\ Commit(simulationOpen([Cur EXCEPT !.simStart = @ - 1]))

\* WhatsApp.simulateIncomingMessages: one of its timers fires
SimMessageFire ==
    /\ simMessages > 0
    /\ Commit(Emit([Cur EXCEPT !.simMessages = @ - 1], "messages.upsert"))

\* QRManager.generateQR, called by the application
QRGenerate(authData) ==
    Commit([qrGenerateQR(Cur, authData) EXCEPT !.closedByCaller = FALSE])

\* QRManager.startQRTimer: its timer fires
QRTimerFire ==
    /\ qrTimer
    /\ Commit(qrTimerExpired(Cur))

\* what the sockets and the timers of the manager do
TransportEvents ==
    \/ \E sock \in Sockets : SocketOpen(sock)
    \/ \E sock \in Sockets : SocketFail(sock)
    \/ \E sock \in Sockets : SocketError(sock)
    \/ \E sock \in Sockets, code \in CloseCodes : SocketClose(sock, code)
    \/ \E sock \in Sockets : SocketPong(sock)
    \/ \E caller \in Callers : ConnectTimeout(caller)
    \/ ReconnectTimerFire
    \/ PingTick

Next ==
    \/ ClientConnect
    \/ ClientDisconnect
    \/ TransportEvents
    \/ QRExpiryFire
    \/ SimStartFire
    \/ SimMessageFire
    \/ \E authData \in AuthData : QRGenerate(authData)
    \/ QRTimerFire

NextPairing ==
    \/ \E authData \in AuthData : QRGenerate(authData)
    \/ QRTimerFire
    \/ QRDeadline
    \/ QRClear
    \/ \E scanData \in ScanData : ProcessScan(scanData)
    \/ TransportEvents
    \/ SimStartFire
    \/ SimMessageFire

NextCodec ==
    \/ \E key \in CodecKeys : UpdateCredentials(key)
    \/ ClockTick
    \/ \E message \in Messages, messageId \in MessageIds : BuildAndParse(message, messageId)
    \/ \E given \in ValidCredentials : SaveAndLoad(given)

NextMessages ==
    \/ Connect
    \/ \E sock \in Sockets : SocketOpen(sock)
    \/ \E args \in Arguments(2), messageId \in MessageIds, packetId \in MessageIds :
          SendText(args[1], args[2], messageId, packetId)
    \/ \E args \in Arguments(3), messageId \in MessageIds, packetId \in MessageIds :
          SendLocation(args[1], args[2], args[3], messageId, packetId)
    \/ \E args \in Arguments(3) : EditMessage(args[1], args[2], args[3])
    \/ SendResolved

NextPoll ==
    \/ \E pollId \in PollIds, multipleChoice \in BOOLEAN :
          CreatePoll(pollId, multipleChoice)
    \/ \E pollId \in PollIds, optionIds \in OptionIdLists, voterId \in Voters :
          VotePoll(pollId, optionIds, voterId)

NextRetry ==
    \/ \E outcome \in Outcomes : Handle(outcome)
    \/ \E outcome \in Outcomes : RetryFire(outcome)

NextJid == \E jid \in Jids : FormatJid(jid)

NextQueue ==
    \/ Connect
    \/ \E sock \in Sockets : SocketOpen(sock)
    \/ \E args \in Arguments(2), messageId \in MessageIds, packetId \in MessageIds :
          SendText(args[1], args[2], messageId, packetId)
    \/ ProcessQueue
    \/ QueueDelay

NextOptions ==
    \/ ClientConnect
    \/ ClientDisconnect
    \/ SendMessage
    \/ TransportEvents
    \/ \E sock \in Sockets, frame \in Frames : FrameArrives(sock, frame)
    \/ QRExpiryFire
    \/ SimStartFire
    \/ SimMessageFire

NextSession ==
    \/ ClientConnect
    \/ ClientDisconnect
    \/ Logout
    \/ SendMessage
    \/ \E scanData \in ScanData : ProcessScan(scanData)
    \/ \E sock \in Sockets, frame \in Frames : FrameArrives(sock, frame)
    \/ TransportEvents
    \/ QRExpiryFire
    \/ SimStartFire
    \/ SimMessageFire

NextTransport ==
    \/ Connect
    \/ Disconnect
    \/ Send
    \/ FlushTick
    \/ TransportEvents

NextReconnect ==
    \/ Connect
    \/ Disconnect
    \/ TransportEvents

\* the WhatsApp client with its manager; the payloads of send are left out:
\* they change the queue only, and nothing else reads the queue
Spec == Init /\ [][Next]_vars

\* the manager alone, with its listeners, under a caller that may call connect,
\* disconnect and send at any time (WhatsApp is one such caller)
SpecTransport == InitTransport /\ [][NextTransport]_vars

\* the same manager and caller without payloads, with a higher attempt ceiling
SpecReconnect == InitReconnect /\ [][NextReconnect]_vars

\* the QRManager of a client with the client's listeners, under an application
\* that asks the manager for codes and passes it the scans
SpecPairing == InitPairing /\ [][NextPairing]_vars

\* the client with a stored session, its own pairing code and inbound frames,
\* under an application that calls the client and passes scans to its QRManager
SpecSession == InitSession /\ [][NextSession]_vars

\* the message handler of a client whose socket opens and stays open, under an
\* application that connects and calls the handler, all within 60 s, and
\* leaves the handler's queue alone, as the client itself does
SpecMessages == InitMessages /\ [][NextMessages]_vars

\* SpecMessages with every pending step taken in the end: each step of
\* NextMessages is a call that a running application makes, an event of the
\* socket or the end of an await, and none of them stays pending for ever
SpecMessagesFair == SpecMessages /\ WF_vars(NextMessages)

\* the poll handler under an application that creates polls and votes
SpecPoll == InitMessages /\ [][NextPoll]_vars

\* one call of ErrorHandler.handle, for each choice of the handler's options
SpecRetry == InitRetry /\ [][NextRetry]_vars

\* formatJid applied to identifiers
SpecJid == InitMessages /\ [][NextJid]_vars

\* the same handler under an application that sends texts and calls
\* processQueue, up to the time the first direct send resolves
SpecQueue == InitMessages /\ [][NextQueue]_vars

\* the client under each choice of its options
SpecOptions == InitOptions /\ [][NextOptions]_vars

\* the packet builder and the packet parser of one client, holding the same
\* credentials, applied to messages
SpecCodec == InitCodec /\ [][NextCodec]_vars

(* ------------------------------- claims -------------------------------- *)

\* the payloads of the queue that ws.send accepted, in the order it accepted them
Flushed == SelectSeq(wire, LAMBDA p : \E i \in DOMAIN queuedLog : queuedLog[i] = p)

\* C1: every payload that send queued is still in the queue or was handed to
\* the socket exactly once, and both the queue and the socket hold them in the
\* order of the send calls
C1_QueuedFlushedInOrder == Flushed \o messageQueue = queuedLog

\* C2: the send queue never holds more than queueSize payloads
C2_QueueBounded == Len(messageQueue) <= queueSize

\* C3: WebSocketManager.disconnect leaves the send queue empty, so that no
\* payload queued before it reaches a later connection
C3_QueueDiscardedOnClose == [][Disconnect => messageQueue' = <<>>]_vars

\* the ping tick that finds no pong for more than 2 x pingInterval
PingTimeout == PingTick /\ isConnected /\ ws # 0 /\ pongAge + 1 > PongLimit

\* C4: the ping tick after more than 2 x pingInterval without a pong delivers
\* connection.update 'close' and leaves WhatsApp.isConnected false
C4_LivenessFailureEmitted ==
    [][PingTimeout =>
          /\ ~waIsConnected'
          /\ connectionState' = "close"
          /\ ConnectionUpdate("close") \in emitted']_vars

\* a step in which an open connection is lost and the caller has not asked for it
LostUnasked ==
    /\ isConnected
    /\ ~isConnected'
    /\ PingTimeout \/ \E sock \in Sockets : SocketClose(sock, AbnormalClosure)

\* C5: whenever an open connection is lost without the caller asking for it, a
\* reconnect is scheduled (an open connection has made no attempt yet)
C5_ReconnectAfterLoss ==
    [][LostUnasked => reconnectTimers' = reconnectTimers + 1]_vars

\* C6: reconnectAttempts is 0 right after every open, and every step that
\* schedules a reconnect increases it
C6_AttemptCounter ==
    [][/\ (\E sock \in Sockets : SocketOpen(sock)) => reconnectAttempts' = 0
       /\ reconnectTimers' > reconnectTimers =>
             reconnectAttempts' = reconnectAttempts + 1]_vars

\* C6: the manager is open, the counter is back at 0, and the reconnect that an
\* earlier loss scheduled (counter 1) is still pending
C6_Witness == isConnected /\ reconnectAttempts = 0 /\ reconnectTimers > 0 /\ lastDelay = 1000

FinalAttemptFails ==
    /\ reconnectAttempts = maxReconnectAttempts
    /\ failures' >= maxReconnectAttempts
    /\ failures' > failures
    /\ (\E sock \in Sockets : SocketFail(sock)) \/ ConnectTimeout("timer")

\* C8: when the last permitted attempt fails, nothing more is scheduled, the
\* session is closed and an error reaches the application
C8_TerminalClose ==
    [][FinalAttemptFails =>
          /\ reconnectTimers' <= reconnectTimers
          /\ connectionState' = "close"
          /\ ~waIsConnected'
          /\ "error" \in emitted']_vars

\* the sockets that are pending or open with the manager's listeners attached
Attached == {i \in Sockets : sockets[i] \in {"connecting", "open", "errored"}}

\* C9: at most one socket is pending or open with its listeners attached
C9_NoOverlap == Cardinality(Attached) <= 1

\* C10: when WhatsApp.disconnect has run, no ping timer and no pairing-expiry
\* timer is pending
C10_NoDanglingTimers ==
    [][ClientDisconnect => ~pingTimer' /\ qrExpiry' = 0 /\ ~qrTimer']_vars


\* the scan data names every required field and the client identifier of the
\* outstanding code
MatchesChallenge(scanData) ==
    /\ scanData.fields = requiredFields
    /\ qrClientId # 0
    /\ scanData.clientId = qrClientId

\* C11: in every state the client reaches, processQRScan with scan data that
\* lacks a required field or carries another client identifier than the
\* outstanding code fails: no 'qr.scanned' is emitted, the timer and the code
\* stay as they were and nothing of the authentication state changes
C11_InvalidScanFailsClosed ==
    \A scanData \in ScanData :
        ~MatchesChallenge(scanData) =>
            LET after == processQRScan(Cur, scanData)
            IN  /\ after.scanResult = "rejected"
                /\ "qr.scanned" \notin after.emitted
                /\ after.qrTimer = qrTimer
                /\ after.qrClientId = qrClientId
                /\ after.isAuthenticated = isAuthenticated
                /\ after.authIsAuthenticated = authIsAuthenticated
                /\ after.credentials = credentials
                /\ after.sessionFile = sessionFile
                /\ after.codecCredentials = codecCredentials
                /\ after.simulationMode = simulationMode
                /\ after.waiters = waiters

\* a scan was refused while a code was outstanding
C11_Witness == scanResult = "rejected" /\ qrClientId # 0 /\ qrTimer

\* C12: once the expiry time of a pairing code has passed, no processQRScan
\* for that code succeeds
C12_NoScanAfterExpiry == [][scanResult' = "accepted" => ~codeExpired]_vars

\* C13: the expiry timer of a pairing code replaces the code by a new one only
\* while the session is still pairing: after the caller disconnected the
\* client, no timer announces an expiry and generates a new code
C13_RefreshOnlyWhilePairing ==
    [][(qrTimer /\ "qr.expired" \in emitted') => ~closedByCaller]_vars

\* a scan of the code that WhatsApp.generateQR displayed, with every required
\* field and a secretKey of full length
ScansOfDisplayed ==
    {scanData \in ScanData : /\ scanData.fields = requiredFields
                             /\ scanData.clientId = DisplayedId
                             /\ scanData.secretLength >= SecretKeyLength}

\* C14: while a client without stored session that called connect() displays
\* its pairing code and the time of the code has not passed, processing a
\* valid scan of that code makes the client authenticated
C14_ValidScanAuthenticates ==
    (sessionFile = <<>> /\ ~closedByCaller /\ qrExpiry > 0) =>
        \A scanData \in ScansOfDisplayed :
            LET after == processQRScan(Cur, scanData)
            IN  after.scanResult = "accepted" /\ after.isAuthenticated

\* C15: when the stored session was last used more than 30 days ago, connect()
\* gets no session from loadSession, which removes the file and keeps the
\* AuthManager without credentials; the client is not made authenticated and
\* turns to pairing: it displays its code or awaits the socket, after which it
\* displays the code
C15_ExpiredSessionFallsBack ==
    (sessionFile # <<>> /\ sessionFile[1].valid /\ sessionFile[1].age > maxAge) =>
        LET after == waConnect(Cur)
        IN  /\ after.loadResult = "expired"
            /\ after.sessionFile = <<>>
            /\ ~after.credentials
            /\ ~after.authIsAuthenticated
            /\ after.isAuthenticated = isAuthenticated
            /\ \/ after.qrExpiry > qrExpiry
               \/ after.waiters["client"] > waiters["client"]

\* connect() found an expired session and awaits the socket
C15_Witness ==
    loadResult = "expired" /\ sessionFile = <<>> /\ waiters["client"] > 0

\* C16: the client becomes authenticated only in a step in which the socket
\* delivers the protocol's answer to the authentication, never on finding a
\* stored session, on a local event or when a timer fires
C16_AuthenticatedOnlyOnAck ==
    [][(~isAuthenticated /\ isAuthenticated') =>
           \E sock \in Sockets : FrameArrives(sock, "auth_response")]_vars

\* C17: whenever a frame is handed to parsePacket or sendMessage encodes a
\* message, the builder and the parser hold credentials and the client has
\* completed pairing or resume
C17_CodecOnlyWithCredentials ==
    [][(\/ \E sock \in Sockets, frame \in Frames \ {"badJson", "shortBinary"} :
              FrameArrives(sock, frame)
        \/ ~simulationMode /\ SendMessage)
       => (codecCredentials /\ isAuthenticated)]_vars

\* C18: the credentials of the AuthManager and the session file are wiped by
\* logout() only: no other step, a connection loss least of all, takes set
\* credentials or an existing file away
C18_WipedOnlyByLogout ==
    [][((credentials /\ ~credentials') \/ (sessionFile # <<>> /\ sessionFile' = <<>>))
       => Logout]_vars

\* C19: from logout() until the caller calls connect() again the session
\* stays destroyed: no session file, no credentials in the AuthManager, and
\* the client neither connected nor authenticated
C19_LogoutIsFinal ==
    loggedOut => /\ sessionFile = <<>>
                 /\ ~credentials
                 /\ ~waIsConnected
                 /\ ~isAuthenticated

\* C20: in every state with an open socket, a malformed frame from it leaves
\* isConnected (of the manager and of the client), isAuthenticated,
\* connectionState, reconnectAttempts and the credentials as they were and
\* delivers no message, presence, reaction or group event
C20_MalformedFrameIgnored ==
    (\E sock \in Sockets : sockets[sock] = "open") =>
        \A frame \in MalformedFrames :
            LET after == handleMessage(Cur, frame)
            IN  /\ after.isConnected = isConnected
                /\ after.waIsConnected = waIsConnected
                /\ after.isAuthenticated = isAuthenticated
                /\ after.connectionState = connectionState
                /\ after.reconnectAttempts = reconnectAttempts
                /\ after.credentials = credentials
                /\ after.authIsAuthenticated = authIsAuthenticated
                /\ after.emitted \cap {"messages.upsert", "presence.update",
                                       "messages.reaction", "groups.update"} = {}

\* a malformed frame has arrived on the open socket of a connected client
C20_Witness ==
    /\ emitted = {"error"}
    /\ waIsConnected
    /\ \E sock \in Sockets : sockets[sock] = "open"

\* C21: in every state with an open socket, a packet whose signature does not
\* verify is dropped: it reaches no handler, so no message, presence, reaction
\* or group event is delivered for it, and the connection stays as it was
C21_BadSignatureDropped ==
    (\E sock \in Sockets : sockets[sock] = "open") =>
        \A frame \in SignedFrames :
            ~verifySignature(Cur, frame) =>
                LET after == handleMessage(Cur, frame)
                IN  /\ after.emitted \cap {"messages.upsert", "presence.update",
                                           "messages.reaction", "groups.update"} = {}
                    /\ after.isConnected = isConnected
                    /\ after.waIsConnected = waIsConnected

\* C22: when the parser decodes the frame that the builder made of a message
\* under the same credentials, it delivers the message with to, content and
\* messageType as they were given, and the signature of the frame verifies
C22_RoundTrip ==
    decoded # <<>> =>
        /\ decoded[1].message = built[1].message
        /\ built[1].signed => decoded[1].verified

\* a message went through the builder and the parser under credentials
C22_Witness ==
    /\ decoded # <<>>
    /\ built[1].signed
    /\ decoded[1].verified
    /\ messageCounter > 1

\* C23: a call of buildMessagePacket with the message and the credentials of
\* the call before it returns the frame that call returned
C23_EncodingDeterministic ==
    [][(/\ built # <<>>
        /\ built' # <<>>
        /\ built'[1].message = built[1].message
        /\ codecCredentials' = codecCredentials
        /\ codecKey' = codecKey)
       => built'[1].frame = built[1].frame]_vars

\* C24: whenever sendMessage resolves with success, its message was passed to
\* WebSocketManager.send, which wrote it to the socket or queued it
C24_SuccessMeansHandedOver ==
    sendMessageSucceeds(Cur) =>
        LET after == sendMessage(Cur)
        IN  \/ Len(after.wire) > Len(wire)
            \/ Len(after.messageQueue) > Len(messageQueue)

\* C25: the client, which no caller can construct as a test double, never
\* enters simulation mode and so never emits a fabricated 'open' or message
C25_NoSilentSimulation ==
    /\ ~simulationMode
    /\ simMessages = 0

\* C26: a client constructed with autoReconnect: false never has a
\* reconnection scheduled
C26_NoReconnectWhenDisabled ==
    ~autoReconnect => reconnectTimers = 0

\* C27: no malformed frame on an open socket ends the process, whether or not
\* the application listens to 'error'
C27_MalformedFrameNeverCrashes ==
    (\E sock \in Sockets : sockets[sock] = "open") =>
        \A frame \in MalformedFrames : ~handleMessage(Cur, frame).crashed

\* C28: the credentials that loadSession returns after saveSession are the
\* credentials that were passed to saveSession
C28_SessionRoundTrip ==
    persisted # <<>> => persisted[1].loaded = persisted[1].given

\* C29: within 60 s the handler passes at most 20 packets to wsManager.send
C29_AtMostTwentyPerWindow ==
    handed <= RateLimitMax

\* what a call of the handler may change besides its own result
HandlerEffects(s) ==
    <<s.wire, s.messageQueue, s.handlerQueue, s.rateMessages, s.resetTime,
      s.pendingSends, s.handed, s.messageCounter, s.built>>

\* C30: sendText, editMessage and sendLocation called with a parameter that is
\* undefined, null or the empty string reject, and they build no packet, send
\* and queue nothing and leave the rate-limit counter as it was
C30_MissingParameterRejected ==
    /\ \A args \in [1..2 -> ArgValues] :
          (\E i \in 1..2 : args[i] # "123") =>
              \A messageId \in MessageIds :
                  LET after == sendText(Cur, args[1], args[2], messageId, messageId)
                  IN  /\ after.sendResult = "rejected"
                      /\ HandlerEffects(after) = HandlerEffects(Cur)
    /\ \A args \in [1..3 -> ArgValues] :
          (\E i \in 1..3 : args[i] # "123") =>
              /\ \A messageId \in MessageIds :
                    LET after == sendLocation(Cur, args[1], args[2], args[3], messageId, messageId)
                    IN  /\ after.sendResult = "rejected"
                        /\ HandlerEffects(after) = HandlerEffects(Cur)
              /\ LET after == editMessage(Cur, args[1], args[2], args[3])
                 IN  /\ after.sendResult = "rejected"
                     /\ HandlerEffects(after) = HandlerEffects(Cur)

\* a call with a missing parameter was rejected while the handler had sent a
\* message and could still send
C30_Witness ==
    /\ sendResult = "rejected"
    /\ handed > 0
    /\ rateMessages < RateLimitMax
    /\ \E sock \in Sockets : sockets[sock] = "open"

\* C31: each turn of processQueue on a ready transport passes the oldest queued
\* message to wsManager.send and removes it, so the messages leave in the order
\* they were queued, each once, and a run ends only with the queue empty; a
\* send that fails leaves the message at the head, sends nothing and ends the run
C31_QueueFlushedInOrder ==
    /\ \A i, j \in DOMAIN flushed : i < j => flushed[i] < flushed[j]
    /\ \A i \in DOMAIN flushed, j \in DOMAIN handlerQueue : flushed[i] < handlerQueue[j]
    /\ \A i, j \in DOMAIN handlerQueue : i < j => handlerQueue[i] < handlerQueue[j]
    /\ isReady(Cur) =>
          /\ LET after == processQueueTurn(Cur, FALSE)
             IN  IF handlerQueue = <<>>
                 THEN ~after.handlerProcessing /\ after.wire = wire
                 ELSE /\ after.handlerProcessing
                      /\ after.wire = Append(wire, Head(handlerQueue))
                      /\ after.handlerQueue = Tail(handlerQueue)
          /\ LET after == processQueueTurn(Cur, TRUE)
             IN  /\ ~after.handlerProcessing
                 /\ after.wire = wire
                 /\ after.handlerQueue = handlerQueue

\* a run of processQueue has sent two queued messages and emptied the queue
C31_Witness ==
    /\ Len(flushed) = 2
    /\ handlerQueue = <<>>
    /\ ~handlerProcessing
    /\ \E sock \in Sockets : sockets[sock] = "open"

\* C32: formatJid maps null and undefined to null; any other identifier gets
\* '@g.us' if its part before '@' holds '-' and '@s.whatsapp.net' if not; an
\* identifier that ends in one of the two suffixes comes back unchanged; and
\* formatting the result again changes nothing
C32_FormatJidNormalises ==
    formatted # <<>> =>
        LET given == formatted[1].given
            result == formatted[1].result
            n == Len(given.pieces)
        IN  /\ given.kind # "string" => result = Null
            /\ (given.kind = "string" /\ n > 0) =>
                  /\ result.pieces =
                        BeforeAt(given.pieces) \o
                        (IF HasDash(BeforeAt(given.pieces))
                         THEN <<"@", "g.us">> ELSE <<"@", "s.whatsapp.net">>)
                  /\ (/\ n >= 2
                      /\ given.pieces[n - 1] = "@"
                      /\ given.pieces[n] \in {"g.us", "s.whatsapp.net"})
                     => result = given
            /\ formatJid(result) = result

\* C33: handle calls the operation at most maxRetries + 1 times; it waits for a
\* retry only with retry enabled, after an error that is retryable and for
\* retryDelay * 2^retryCount; and it ends as soon as the operation returns or
\* throws an error it may not retry
C33_RetryBounded ==
    /\ handling.invocations <= maxRetries + 1
    /\ handling.phase # "idle" => handling.invocations = handling.retryCount + 1
    /\ handling.phase = "delaying" =>
          /\ enableRetry
          /\ handling.code \notin nonRetryableCodes
          /\ handling.retryCount < maxRetries
          /\ handling.delay = retryDelay * (2 ^ handling.retryCount)
    /\ handling.phase = "threw" =>
          \/ ~enableRetry
          \/ handling.code \in nonRetryableCodes
          \/ handling.invocations = maxRetries + 1

\* an AUTH_FAILED error was surfaced at once although retry is enabled
C33_Witness ==
    /\ handling.phase = "threw"
    /\ handling.code = "AUTH_FAILED"
    /\ handling.invocations = 1
    /\ enableRetry
    /\ maxRetries = DefaultMaxRetries

\* C34: while processMessageQueue is draining and payloads queued earlier are
\* still waiting, a payload passed to send is not written to the socket
C34_SendKeepsOrderDuringFlush ==
    (isProcessingQueue /\ messageQueue # <<>>) =>
        LET after == send(Cur, sendCount + 1)
        IN  after.wire = wire

\* C35: between a disconnect by the caller and the caller's next connect, no
\* step gives the manager a socket that is connecting
C35_NoAttemptAfterDisconnect ==
    [][(closedByCaller /\ closedByCaller') =>
          \A i \in Sockets : sockets'[i] = "connecting" => sockets[i] = "connecting"]_vars

\* C36: when the transport is ready from some time on, every time messages
\* wait in the handler's queue the queue is empty again later, with the
\* application calling nothing but the send methods
C36_QueuedEventuallySent ==
    (<>[]isReady(Cur)) => [](handlerQueue # <<>> => <>(handlerQueue = <<>>))

\* C37: when sendMessage has queued or sent a packet, the messageId it returns
\* is the messageId of that packet
C37_ReturnedIdIsPacketId ==
    (sendResult \in {"queued", "sending"}) =>
        JSONparse(built[1].frame).messageId = built[1].message.messageId

\* C38: when saveSession has returned, the secretKey, privateKey, sessionToken
\* and clientToken of AuthManager.credentials are the values they had before
\* the call
C38_SaveKeepsCredentials ==
    persisted # <<>> =>
        \A f \in sensitiveFields : persisted[1].kept[f] = persisted[1].given[f]

\* C39: for every poll and option, the votes of the option are the number of
\* voters whose stored ballot contains the option, and they are not negative
C39_VotesMatchBallots ==
    \A pollId \in PollIds :
        activePoll[pollId] # <<>> =>
            LET poll == activePoll[pollId][1]
            IN  \A i \in OptionIds :
                    /\ poll.options[i] >= 0
                    /\ poll.options[i] =
                          Cardinality({v \in Voters : Occurrences(poll.votes[v], i) > 0})

\* C40: in a step that emits 'connection.update' with connection 'open', the
\* client ends connected and the manager ready
C40_OpenMeansTransportOpen ==
    ConnectionUpdate("open") \in emitted => waIsConnected /\ isReady(Cur)

====
